---- MODULE Spec2Model ----
(***************************************************************************)
(* Model of the feature-selection transformers of                          *)
(* photonai/modelwrapper/feature_selection.py and of the investigator view *)
(* compare_configurations (photonai/investigator/app/controller/           *)
(* configuration.py).                                                      *)
(*                                                                         *)
(* A transformer instance is the record `self`; every method call is one   *)
(* action that updates `self` as the method's assignments do and records   *)
(* the call (arguments, outcome, returned matrix) in `call`.               *)
(*                                                                         *)
(* Numbers: thresholds, p-values and importance scores are exact multiples *)
(* of 1/Den, stored as their integer numerators.  A matrix is a sequence   *)
(* of rows (at least one row); column indices are 0-based as in numpy.     *)
(***************************************************************************)
EXTENDS Integers, Sequences, FiniteSets, TLC

VARIABLES self, call, fit_state, view

vars == <<self, call, fit_state, view>>

\* ------------------------------------------------------------------ bounds
MaxRows == 2
MaxCols == 2
MaxScore == 1
\* denominator of the rational numbers: the integer t stands for t / Den
Den == 2
\* outer folds stored with a pipeline
MaxFolds == 2

\* ----------------------------------------------------------- Python values
\* None, for the integer-valued attribute n_original_features
None == -1
\* float('nan'), as f_regression yields for a constant column
NaN == -2
\* None, for the attributes model_selector / my_fs
NoneObj == [cls |-> "NoneType"]

\* ---------------------------------------------------------------- matrices
\* the r x c input matrix; every cell is non-zero and names its position
Mat(r, c) == [i \in 1..r |-> [j \in 1..c |-> 10 * i + j]]

\* the data matrices passed in: a single row or MaxRows rows, and at least
\* one column
Inputs == {Mat(r, c) : r \in {1, MaxRows}, c \in 1..MaxCols}
\* fit reads only the column count of X and hands the data to the library
FitInputs == {Mat(MaxRows, c) : c \in 1..MaxCols}

\* X.shape[0], X.shape[1]
NRows(X) == Len(X)
NCols(X) == Len(X[1])

\* np.where(mask)[0]: the ascending 0-based positions at which mask is TRUE
RECURSIVE np_where(_)
np_where(mask) ==
    IF mask = <<>> THEN <<>>
    ELSE LET n == Len(mask)
             front == np_where(SubSeq(mask, 1, n - 1))
         IN  IF mask[n] THEN Append(front, n - 1) ELSE front

\* the comparison written as p <= t
FloatLess_inclusive(p, t) == p # NaN /\ p <= t

\* p < t on floats: every comparison with nan is False
FloatLess(p, t) == p # NaN /\ p < t

\* X[:, idx] can be evaluated: every index is inside the column range
IndexOk(X, idx) == \A k \in 1..Len(idx) : idx[k] < NCols(X)

\* X[:, idx] (numpy integer-array indexing of the columns)
TakeCols(X, idx) ==
    [i \in 1..NRows(X) |-> [k \in 1..Len(idx) |-> X[i][idx[k] + 1]]]

\* Xt = np.zeros((X.shape[0], n)); Xt[:, idx] = X
PositionOf(idx, j) == CHOOSE k \in 1..Len(idx) : idx[k] = j
ScatterCols(X, idx, n) ==
    [i \in 1..NRows(X) |->
        [j \in 1..n |->
            IF \E k \in 1..Len(idx) : idx[k] = j - 1
            THEN X[i][PositionOf(idx, j - 1)]
            ELSE 0]]

\* np.sort(v): ascending
RECURSIVE np_sort(_)
Insert(s, x) ==
    LET k == Cardinality({i \in 1..Len(s) : s[i] <= x})
    IN  SubSeq(s, 1, k) \o <<x>> \o SubSeq(s, k + 1, Len(s))
np_sort(v) ==
    IF v = <<>> THEN <<>>
    ELSE Insert(np_sort(SubSeq(v, 1, Len(v) - 1)), v[Len(v)])

\* all vectors of length n over the set S
Vectors(n, S) == [1..n -> S]

\* what a method call leaves behind: the instance, how the call ended
\* ("ok" or the exception raised) and the returned matrix (<<>> when none)
Return(obj, outcome, result) ==
    [self |-> obj, outcome |-> outcome, result |-> result]

NoResult == <<>>

\* ------------------------------------------------ FRegressionFilterPValue
FRegressionFilterPValue(p_threshold) ==
    [cls |-> "FRegressionFilterPValue",
     p_threshold |-> p_threshold,
     selected_indices |-> <<>>,
     n_original_features |-> None]

\* p_values is what f_regression(X, y) returns: one p-value per column
FRFP_fit(s, X, p_values) ==
    LET mask == [i \in 1..Len(p_values) |->
                    FloatLess(p_values[i], s.p_threshold)]
    IN  Return([s EXCEPT !.n_original_features = NCols(X),
                         !.selected_indices = np_where(mask)],
               "ok", NoResult)

FRFP_transform(s, X) ==
    IF IndexOk(X, s.selected_indices)
    THEN Return(s, "ok", TakeCols(X, s.selected_indices))
    ELSE Return(s, "IndexError", NoResult)

FRFP_inverse_transform(s, X) ==
    IF NCols(X) # Len(s.selected_indices)
    THEN Return(s, "ValueError", NoResult)
    ELSE IF s.n_original_features = None
    THEN Return(s, "TypeError", NoResult)
    ELSE IF \E k \in 1..Len(s.selected_indices) :
                s.selected_indices[k] >= s.n_original_features
    THEN Return(s, "IndexError", NoResult)
    ELSE Return(s, "ok",
                ScatterCols(X, s.selected_indices, s.n_original_features))

\* ---------------------------------------------------------- ModelSelector
ModelSelector(threshold, percentile) ==
    [cls |-> "ModelSelector",
     threshold |-> threshold,
     percentile |-> percentile,
     selected_indices |-> <<>>,
     importance_scores |-> <<>>,
     n_original_features |-> None]

Abs(x) == IF x < 0 THEN -x ELSE x

\* The fitted estimator is [attr, v]: attr names the attribute it exposes
\* ("feature_importances_", "coef_" one-dimensional, or "neither").
\* The result is <<>> when the method raises ValueError.
MS_get_feature_importances(estimator) ==
    IF estimator.attr = "feature_importances_" THEN estimator.v
    ELSE IF estimator.attr = "coef_"
    THEN [i \in 1..Len(estimator.v) |-> Abs(estimator.v[i])]
    ELSE <<>>

\* int(np.floor((1 - threshold) * n)), threshold = t / Den, computed
\* exactly (the rounding of the float product is not modelled)
PercentileIndex(t, n) == ((Den - t) * n) \div Den

AtLeast(v, bound) == np_where([i \in 1..Len(v) |-> v[i] >= bound])

MS_fit(s, X, estimator) ==
    LET s1 == [s EXCEPT !.n_original_features = NCols(X)]
        importances == MS_get_feature_importances(estimator)
        s2 == [s1 EXCEPT !.importance_scores = importances]
        ordered_importances == np_sort(importances)
        index == PercentileIndex(s.threshold, NCols(X))
    IN  IF estimator.attr = "neither"
        THEN Return(s1, "ValueError", NoResult)
        ELSE IF ~s.percentile
        THEN Return([s2 EXCEPT !.selected_indices =
                                    AtLeast(importances, s.threshold)],
                    "ok", NoResult)
        ELSE IF s.threshold > Den
        THEN Return(s2, "ValueError", NoResult)
        ELSE IF index >= Len(ordered_importances)
        THEN Return(s2, "IndexError", NoResult)
        ELSE Return([s2 EXCEPT !.selected_indices =
                        AtLeast(importances, ordered_importances[index + 1])],
                    "ok", NoResult)

MS_transform(s, X) ==
    IF ~IndexOk(X, s.selected_indices)
    THEN Return(s, "IndexError", NoResult)
    ELSE LET X_new == TakeCols(X, s.selected_indices)
         IN  IF NCols(X_new) = 0
             THEN Return(s, "ok", X)
             ELSE Return(s, "ok", X_new)

\* the shape check made against n_original_features instead of
\* len(selected_indices)
MS_inverse_transform_original_width(s, X) ==
    IF NCols(X) # s.n_original_features
    THEN Return(s, "ValueError", NoResult)
    ELSE IF \E k \in 1..Len(s.selected_indices) :
                s.selected_indices[k] >= s.n_original_features
    THEN Return(s, "IndexError", NoResult)
    ELSE Return(s, "ok",
                ScatterCols(X, s.selected_indices, s.n_original_features))

MS_inverse_transform(s, X) ==
    IF NCols(X) # Len(s.selected_indices)
    THEN Return(s, "ValueError", NoResult)
    ELSE IF s.n_original_features = None
    THEN Return(s, "TypeError", NoResult)
    ELSE IF \E k \in 1..Len(s.selected_indices) :
                s.selected_indices[k] >= s.n_original_features
    THEN Return(s, "IndexError", NoResult)
    ELSE Return(s, "ok",
                ScatterCols(X, s.selected_indices, s.n_original_features))

\* -------------------------------------------------- LassoFeatureSelection
LassoFeatureSelection(percentile) ==
    [cls |-> "LassoFeatureSelection",
     percentile |-> percentile,
     model_selector |-> NoneObj]

\* lasso is the fitted Lasso: it always exposes a one-dimensional coef_
LFS_fit(s, X, lasso) ==
    LET r == MS_fit(ModelSelector(s.percentile, TRUE), X, lasso)
    IN  Return([s EXCEPT !.model_selector = r.self], r.outcome, NoResult)

LFS_transform(s, X) ==
    IF s.model_selector = NoneObj
    THEN Return(s, "AttributeError", NoResult)
    ELSE LET r == MS_transform(s.model_selector, X)
         IN  Return([s EXCEPT !.model_selector = r.self], r.outcome, r.result)

LFS_inverse_transform(s, X) ==
    IF s.model_selector = NoneObj
    THEN Return(s, "AttributeError", NoResult)
    ELSE LET r == MS_inverse_transform(s.model_selector, X)
         IN  Return([s EXCEPT !.model_selector = r.self], r.outcome, r.result)

\* ------------------------- sklearn selectors used by the percentile classes
\* A fitted selector keeps `support`, one boolean per column seen in fit.
Count(support) == Len(np_where(support))

\* SelectorMixin.transform: the columns whose support is TRUE
Selector_transform(sel, X) ==
    IF NCols(X) # Len(sel.support)
    THEN Return(sel, "ValueError", NoResult)
    ELSE Return(sel, "ok", TakeCols(X, np_where(sel.support)))

\* SelectorMixin.inverse_transform: zeros where support is FALSE
Selector_inverse_transform(sel, X) ==
    IF NCols(X) # Count(sel.support)
    THEN Return(sel, "ValueError", NoResult)
    ELSE Return(sel, "ok",
                ScatterCols(X, np_where(sel.support), Len(sel.support)))

VarianceThreshold ==
    [cls |-> "VarianceThreshold", fitted |-> FALSE, support |-> <<>>]

\* VarianceThreshold.fit_transform: the variances are stored, then fit
\* raises ValueError when no column has a non-zero variance
VT_fit_transform(vt, X, support) ==
    LET vt1 == [vt EXCEPT !.fitted = TRUE, !.support = support]
    IN  IF Count(support) = 0
        THEN Return(vt1, "ValueError", NoResult)
        ELSE Return(vt1, "ok", TakeCols(X, np_where(support)))

VT_transform(vt, X) ==
    IF ~vt.fitted THEN Return(vt, "NotFittedError", NoResult)
    ELSE Selector_transform(vt, X)

VT_inverse_transform(vt, X) ==
    IF ~vt.fitted THEN Return(vt, "NotFittedError", NoResult)
    ELSE Selector_inverse_transform(vt, X)

\* SelectPercentile(score_func, percentile) after fit
SelectPercentile(support) ==
    [cls |-> "SelectPercentile", support |-> support]

\* -------------------------------------------- FRegressionSelectPercentile
FRegressionSelectPercentile(percentile) ==
    [cls |-> "FRegressionSelectPercentile",
     var_thres |-> VarianceThreshold,
     percentile |-> percentile,
     my_fs |-> NoneObj]

\* lib = [var_support, fs_support]: the columns the two sklearn selectors
\* find worth keeping on the data (X, y)
FRSP_fit(s, X, lib) ==
    LET v == VT_fit_transform(s.var_thres, X, lib.var_support)
        s1 == [s EXCEPT !.var_thres = v.self]
    IN  IF v.outcome # "ok"
        THEN Return(s1, v.outcome, NoResult)
        ELSE Return([s1 EXCEPT !.my_fs = SelectPercentile(lib.fs_support)],
                    "ok", NoResult)

FRSP_transform(s, X) ==
    LET v == VT_transform(s.var_thres, X)
    IN  IF v.outcome # "ok" THEN Return(s, v.outcome, NoResult)
        ELSE IF s.my_fs = NoneObj THEN Return(s, "AttributeError", NoResult)
        ELSE LET f == Selector_transform(s.my_fs, v.result)
             IN  Return(s, f.outcome, f.result)

FRSP_inverse_transform(s, X) ==
    IF s.my_fs = NoneObj THEN Return(s, "AttributeError", NoResult)
    ELSE LET f == Selector_inverse_transform(s.my_fs, X)
         IN  IF f.outcome # "ok" THEN Return(s, f.outcome, NoResult)
             ELSE LET v == VT_inverse_transform(s.var_thres, f.result)
                  IN  Return(s, v.outcome, v.result)

\* ----------------------------------------------- FClassifSelectPercentile
FClassifSelectPercentile(percentile) ==
    [cls |-> "FClassifSelectPercentile",
     var_thres |-> VarianceThreshold,
     percentile |-> percentile,
     my_fs |-> NoneObj]

FCSP_fit(s, X, lib) ==
    LET v == VT_fit_transform(s.var_thres, X, lib.var_support)
        s1 == [s EXCEPT !.var_thres = v.self]
    IN  IF v.outcome # "ok"
        THEN Return(s1, v.outcome, NoResult)
        ELSE Return([s1 EXCEPT !.my_fs = SelectPercentile(lib.fs_support)],
                    "ok", NoResult)

FCSP_transform(s, X) ==
    LET v == VT_transform(s.var_thres, X)
    IN  IF v.outcome # "ok" THEN Return(s, v.outcome, NoResult)
        ELSE IF s.my_fs = NoneObj THEN Return(s, "AttributeError", NoResult)
        ELSE LET f == Selector_transform(s.my_fs, v.result)
             IN  Return(s, f.outcome, f.result)

FCSP_inverse_transform(s, X) ==
    IF s.my_fs = NoneObj THEN Return(s, "AttributeError", NoResult)
    ELSE LET f == Selector_inverse_transform(s.my_fs, X)
         IN  IF f.outcome # "ok" THEN Return(s, f.outcome, NoResult)
             ELSE LET v == VT_inverse_transform(s.var_thres, f.result)
                  IN  Return(s, v.outcome, v.result)

\* ------------------------------------------------------ inputs of the calls
\* thresholds t / Den: 0 .. 1 and one value above 1
Thresholds == 0..(Den + 1)
Scores == 0..MaxScore
PValues == Scores \cup {NaN}
Coefs == {-1, 0, 1}
DefaultPercentile == 10

Instances ==
    {FRegressionFilterPValue(p) : p \in Scores}
    \cup {ModelSelector(t, b) : t \in Thresholds, b \in BOOLEAN}
    \cup {LassoFeatureSelection(t) : t \in Thresholds}
    \cup {FRegressionSelectPercentile(DefaultPercentile),
          FClassifSelectPercentile(DefaultPercentile)}

Estimators(n) ==
    {[attr |-> "feature_importances_", v |-> v] : v \in Vectors(n, Scores)}
    \cup {[attr |-> "coef_", v |-> v] : v \in Vectors(n, Coefs)}
    \cup {[attr |-> "neither", v |-> <<>>]}

Lassos(n) == {[attr |-> "coef_", v |-> v] : v \in Vectors(n, Coefs)}

SelectorSupports(n) ==
    UNION {{[var_support |-> vs, fs_support |-> fs] :
                fs \in Vectors(Count(vs), BOOLEAN)} :
           vs \in Vectors(n, BOOLEAN)}

\* what the libraries called by fit can compute on a matrix of n columns
LibOutputs(cls, n) ==
    CASE cls = "FRegressionFilterPValue" -> Vectors(n, PValues)
      [] cls = "ModelSelector" -> Estimators(n)
      [] cls = "LassoFeatureSelection" -> Lassos(n)
      [] OTHER -> SelectorSupports(n)

fit(s, X, lib) ==
    CASE s.cls = "FRegressionFilterPValue" -> FRFP_fit(s, X, lib)
      [] s.cls = "ModelSelector" -> MS_fit(s, X, lib)
      [] s.cls = "LassoFeatureSelection" -> LFS_fit(s, X, lib)
      [] s.cls = "FRegressionSelectPercentile" -> FRSP_fit(s, X, lib)
      [] s.cls = "FClassifSelectPercentile" -> FCSP_fit(s, X, lib)

transform(s, X) ==
    CASE s.cls = "FRegressionFilterPValue" -> FRFP_transform(s, X)
      [] s.cls = "ModelSelector" -> MS_transform(s, X)
      [] s.cls = "LassoFeatureSelection" -> LFS_transform(s, X)
      [] s.cls = "FRegressionSelectPercentile" -> FRSP_transform(s, X)
      [] s.cls = "FClassifSelectPercentile" -> FCSP_transform(s, X)

inverse_transform(s, X) ==
    CASE s.cls = "FRegressionFilterPValue" -> FRFP_inverse_transform(s, X)
      [] s.cls = "ModelSelector" -> MS_inverse_transform(s, X)
      [] s.cls = "LassoFeatureSelection" -> LFS_inverse_transform(s, X)
      [] s.cls = "FRegressionSelectPercentile" -> FRSP_inverse_transform(s, X)
      [] s.cls = "FClassifSelectPercentile" -> FCSP_inverse_transform(s, X)

\* ------------------------------------------------------------------ actions
\* the record of a call: the method, the instance before the call (kept
\* for transform and inverse_transform), the argument X, what the libraries computed (fit only), how the call ended,
\* the returned matrix, and for inverse_transform applied to the matrix a
\* transform call returned, the argument of that transform call (orig)
Called(op, pre, X, lib, r, orig) ==
    [op |-> op, pre |-> pre, X |-> X, lib |-> lib, outcome |-> r.outcome,
     result |-> r.result, orig |-> orig]

NoCall == Called("none", NoneObj, <<>>, <<>>, Return(NoneObj, "none", NoResult), <<>>)

\* ------------------------------------ investigator: compare_configurations
\* str(n) and int(s) on the one-digit numbers the model uses
Digits == <<"0", "1", "2", "3", "4", "5", "6", "7", "8", "9">>
str(n) == Digits[n + 1]
IsInt(s) == \E d \in 0..9 : Digits[d + 1] = s
int(s) == CHOOSE d \in 0..9 : Digits[d + 1] = s

\* the documents stored for a pipeline: every outer fold holds the tested
\* configurations 1 and 2, each with a FoldOperations.MEAN and a
\* FoldOperations.STD metric for training and test
Metric(operation, metric_name, value) ==
    [operation |-> operation, metric_name |-> metric_name, value |-> value]

TestedConfig(fold, nr) ==
    [config_nr |-> nr,
     metrics_train |-> <<Metric("FoldOperations.MEAN", "accuracy", 10 * fold + nr),
                         Metric("FoldOperations.STD", "accuracy", 1)>>,
     metrics_test |-> <<Metric("FoldOperations.STD", "accuracy", 2),
                        Metric("FoldOperations.MEAN", "accuracy", 20 * fold + nr)>>,
     config_dict |-> <<[key |-> "alpha", value |-> nr]>>]

OuterFold(fold) ==
    [fold_nr |-> fold,
     tested_config_list |-> <<TestedConfig(fold, 1), TestedConfig(fold, 2)>>]

StoredPipes == {"pipe_a", "pipe_b"}
Hyperpipe(name) ==
    [name |-> name, outer_folds |-> [f \in 1..MaxFolds |-> OuterFold(f)]]

\* the exception objects the database layer (pymodm.errors) raises:
\* ValidationError defines the property `message`; ConnectionError and
\* DoesNotExist are plain Exception subclasses, which in Python 3 carry
\* only `args`
ValidationError(msg) ==
    [type |-> "ValidationError", attrs |-> {"args", "message"}, message |-> msg]
ConnectionError(msg) ==
    [type |-> "ConnectionError", attrs |-> {"args"}, message |-> msg]
DoesNotExist == [type |-> "DoesNotExist", attrs |-> {"args"}, message |-> ""]

\* MDBHyperpipe.objects.get({'name': name}); fault is what goes wrong in
\* the database layer ("none" when nothing does)
MDBHyperpipe_get(name, fault) ==
    IF fault = "ValidationError"
    THEN [raised |-> ValidationError("invalid document")]
    ELSE IF fault = "ConnectionError"
    THEN [raised |-> ConnectionError("no connection")]
    ELSE IF name \notin StoredPipes
    THEN [raised |-> DoesNotExist]
    ELSE [raised |-> NoneObj, pipe |-> Hyperpipe(name)]

\* seq[i] of Python: negative indices count from the end
PyIndexOk(seq, i) == i < Len(seq) /\ i >= -Len(seq)
PyIndex(seq, i) == IF i >= 0 THEN seq[i + 1] ELSE seq[Len(seq) + i + 1]

\* the x/y pairs a PlotlyTrace collects from the FoldOperations.MEAN metrics
RECURSIVE MeanTrace(_)
MeanTrace(metrics) ==
    IF metrics = <<>> THEN <<>>
    ELSE LET m == metrics[1]
             rest == MeanTrace(Tail(metrics))
         IN  IF m.operation = "FoldOperations.MEAN"
             THEN <<[x |-> m.metric_name, y |-> m.value]>> \o rest
             ELSE rest

\* the loop over outer_fold.tested_config_list: one entry per configuration
\* whose number is in the posted config_list
RECURSIVE SelectedConfigs(_, _)
SelectedConfigs(configs, selected_config_nr_list) ==
    IF configs = <<>> THEN <<>>
    ELSE LET config == configs[1]
             rest == SelectedConfigs(Tail(configs), selected_config_nr_list)
         IN  IF str(config.config_nr) \in selected_config_nr_list
             THEN <<[name |-> config.config_nr,
                     trace_training |-> MeanTrace(config.metrics_train),
                     trace_test |-> MeanTrace(config.metrics_test),
                     items |-> config.config_dict]>> \o rest
             ELSE rest

\* how a call of the view ends: a response body, a rendered template, or
\* an exception that leaves the view
Body(text) == [kind |-> "body", body |-> text]
Rendered(template, pipe, fold, configs) ==
    [kind |-> "template", template |-> template, pipe |-> pipe,
     outer_fold |-> fold, configs |-> configs]
Propagated(type) == [kind |-> "exception", type |-> type]

\* the except clauses: return exc.message
ReturnMessage(exc) ==
    IF "message" \in exc.attrs
    THEN Body(exc.message)
    ELSE Propagated("AttributeError")

compare_configurations(name, fold_nr, config_list, fault) ==
    LET got == MDBHyperpipe_get(name, fault)
    IN  IF got.raised # NoneObj
        THEN IF got.raised.type \in {"ValidationError", "ConnectionError"}
             THEN ReturnMessage(got.raised)
             ELSE Propagated(got.raised.type)
        ELSE IF ~IsInt(fold_nr)
        THEN Propagated("ValueError")
        ELSE IF ~PyIndexOk(got.pipe.outer_folds, int(fold_nr) - 1)
        THEN Propagated("IndexError")
        ELSE LET outer_fold == PyIndex(got.pipe.outer_folds, int(fold_nr) - 1)
             IN  Rendered("configuration/compare.html", name,
                          outer_fold.fold_nr,
                          SelectedConfigs(outer_fold.tested_config_list,
                                          config_list))

\* the requests the model sends
Names == StoredPipes \cup {"missing"}
FoldNrs == {str(n) : n \in 0..(MaxFolds + 1)} \cup {"x"}
ConfigLists == SUBSET {"1", "2"}
Faults == {"none", "ValidationError", "ConnectionError"}

NoView == [state |-> "idle"]

\* where the instance stands with respect to fit: "unfitted" while no fit
\* call has completed, "fitted" when the last fit call completed, "stale"
\* when a fit call completed earlier and the last one raised
AfterFit(state, outcome) ==
    IF outcome = "ok" THEN "fitted"
    ELSE IF state = "unfitted" THEN "unfitted"
    ELSE "stale"

Init ==
    /\ self \in Instances
    /\ call = NoCall
    /\ fit_state = "unfitted"
    /\ view = NoView

Fit ==
    \E X \in FitInputs :
      \E lib \in LibOutputs(self.cls, NCols(X)) :
        LET r == fit(self, X, lib)
        IN  /\ self' = r.self
            /\ call' = Called("fit", NoneObj, X, lib, r, <<>>)
            /\ fit_state' = AfterFit(fit_state, r.outcome)
            /\ UNCHANGED view

Transform ==
    \E X \in Inputs :
        LET r == transform(self, X)
        IN  /\ self' = r.self
            /\ call' = Called("transform", self, X, <<>>, r, <<>>)
            /\ UNCHANGED <<fit_state, view>>

InverseTransform ==
    \E X \in Inputs :
        LET r == inverse_transform(self, X)
        IN  /\ self' = r.self
            /\ call' = Called("inverse_transform", self, X, <<>>, r, <<>>)
            /\ UNCHANGED <<fit_state, view>>

\* inverse_transform(transform(X)): the matrix transform just returned is
\* handed to inverse_transform
InverseOfTransformed ==
    /\ call.op = "transform"
    /\ call.outcome = "ok"
    /\ LET r == inverse_transform(self, call.result)
       IN  /\ self' = r.self
           /\ call' = Called("inverse_transform", self, call.result, <<>>,
                             r, call.X)
    /\ UNCHANGED <<fit_state, view>>

\* one POST to /pipeline/<name>/outer_fold/<fold_nr>/compare_configurations
CompareConfigurations ==
    /\ \E name \in Names, fold_nr \in FoldNrs, config_list \in ConfigLists,
          fault \in Faults :
          view' = [state |-> "done", name |-> name, fold_nr |-> fold_nr,
                   config_list |-> config_list, fault |-> fault,
                   response |-> compare_configurations(name, fold_nr,
                                                       config_list, fault)]
    /\ UNCHANGED <<self, call, fit_state>>

Next == Fit \/ Transform \/ InverseTransform \/ InverseOfTransformed

Spec == Init /\ [][Next]_vars

\* the investigator alone: no transformer is touched
InitView ==
    /\ self = NoneObj
    /\ call = NoCall
    /\ fit_state = "unfitted"
    /\ view = NoView

NextView == CompareConfigurations

SpecView == InitView /\ [][NextView]_vars

\* ------------------------------------------------------------------- claims
\* the classes that keep selected_indices and n_original_features themselves
IndexKeepers == {"FRegressionFilterPValue", "ModelSelector"}

\* the 0-based column indices listed in idx
IndexSet(idx) == {idx[k] : k \in 1..Len(idx)}

StrictlyAscending(idx) ==
    \A k \in 1..(Len(idx) - 1) : idx[k] < idx[k + 1]

\* C1: transform on an instance on which no fit call has completed ends in
\* an error and never returns a matrix (all five transformers).
C1_TransformBeforeFitFails ==
    (call.op = "transform" /\ fit_state = "unfitted")
        => (call.outcome # "ok" /\ call.result = NoResult)

\* C2: for a fitted FRegressionFilterPValue or ModelSelector, transform of
\* an X whose column count differs from n_original_features is rejected
\* with an error and returns no matrix.
C2_TransformChecksFeatureCount ==
    (/\ call.op = "transform"
     /\ self.cls \in IndexKeepers
     /\ fit_state = "fitted"
     /\ NCols(call.X) # call.pre.n_original_features)
        => (call.outcome # "ok" /\ call.result = NoResult)

\* C3: for a fitted FRegressionFilterPValue or ModelSelector and X with
\* n_original_features columns, inverse_transform(transform(X)) has the rows
\* of X and n_original_features columns, equals X in every selected column
\* and is zero in every removed column.
C3_InverseRestoresDimension ==
    (/\ call.op = "inverse_transform"
     /\ call.orig # <<>>
     /\ self.cls \in IndexKeepers
     /\ fit_state = "fitted"
     /\ NCols(call.orig) = call.pre.n_original_features)
        => /\ call.outcome = "ok"
           /\ call.result # NoResult
           /\ NRows(call.result) = NRows(call.orig)
           /\ \A i \in 1..NRows(call.result) :
                 /\ Len(call.result[i]) = call.pre.n_original_features
                 /\ \A j \in 1..Len(call.result[i]) :
                       call.result[i][j] =
                         IF (j - 1) \in IndexSet(call.pre.selected_indices)
                         THEN call.orig[i][j]
                         ELSE 0

\* C4: FRegressionFilterPValue: after fit(X, y) selected_indices is the
\* ascending list of exactly the columns whose p-value is strictly below
\* p_threshold (a p-value equal to p_threshold is not selected) and
\* n_original_features is the column count of X; transform(X') returns
\* exactly the selected columns of X', in that order.
C4_PValueFilter ==
    /\ (self.cls = "FRegressionFilterPValue" /\ call.op = "fit")
          => /\ call.outcome = "ok"
             /\ self.n_original_features = NCols(call.X)
             /\ StrictlyAscending(self.selected_indices)
             /\ IndexSet(self.selected_indices) =
                   {i \in 0..(NCols(call.X) - 1) :
                       /\ call.lib[i + 1] # NaN
                       /\ call.lib[i + 1] < self.p_threshold}
    /\ (/\ self.cls = "FRegressionFilterPValue"
        /\ call.op = "transform"
        /\ fit_state = "fitted")
          => /\ NCols(call.X) = self.n_original_features => call.outcome = "ok"
             /\ call.outcome = "ok" =>
                   /\ NRows(call.result) = NRows(call.X)
                   /\ \A i \in 1..NRows(call.result) :
                         /\ Len(call.result[i]) = Len(self.selected_indices)
                         /\ \A k \in 1..Len(self.selected_indices) :
                               call.result[i][k] =
                                 call.X[i][self.selected_indices[k] + 1]

\* a fit in which one column has a p-value equal to p_threshold and another
\* one a p-value below it
C4_Witness ==
    /\ self.cls = "FRegressionFilterPValue"
    /\ call.op = "fit"
    /\ \E i, j \in 1..Len(call.lib) :
          /\ call.lib[i] = self.p_threshold
          /\ call.lib[j] # NaN
          /\ call.lib[j] < self.p_threshold
          /\ IndexSet(self.selected_indices) = {j - 1}

\* the ModelSelector doing the selection: the instance itself, or the one a
\* LassoFeatureSelection builds in fit
Selector(s) ==
    IF s.cls = "LassoFeatureSelection" THEN s.model_selector ELSE s

PercentileMode(s) ==
    \/ s.cls = "LassoFeatureSelection"
    \/ s.cls = "ModelSelector" /\ s.percentile

\* C5: percentile mode (ModelSelector with percentile=True, and every
\* LassoFeatureSelection): for every threshold 0 <= t <= 1 and importance
\* vector over n >= 1 features, fit completes without error and selects
\* exactly the n - floor((1 - t) * n) features of highest importance.
C5_PercentileKeepsShare ==
    (/\ call.op = "fit"
     /\ PercentileMode(self)
     /\ call.lib.attr # "neither"
     /\ Selector(self).threshold >= 0
     /\ Selector(self).threshold <= Den)
        => LET sel == IndexSet(Selector(self).selected_indices)
               imp == Selector(self).importance_scores
               n == NCols(call.X)
               t == Selector(self).threshold
           IN  /\ call.outcome = "ok"
               /\ Cardinality(sel) = n - (((Den - t) * n) \div Den)
               /\ \A i \in sel : \A j \in (0..(n - 1)) \ sel :
                     imp[i + 1] >= imp[j + 1]

\* C6: inverse_transform of FRegressionFilterPValue and of ModelSelector
\* raises ValueError exactly when the column count of X differs from
\* len(selected_indices); the failed call leaves selected_indices and
\* n_original_features as they were.
C6_InverseShapeError ==
    (call.op = "inverse_transform" /\ self.cls \in IndexKeepers)
        => /\ (call.outcome = "ValueError")
                 <=> (NCols(call.X) # Len(call.pre.selected_indices))
           /\ call.outcome = "ValueError" =>
                 /\ call.result = NoResult
                 /\ self.selected_indices = call.pre.selected_indices
                 /\ self.n_original_features = call.pre.n_original_features

\* a fitted ModelSelector that keeps some but not all columns is handed a
\* matrix of the original width and raises ValueError
C6_Witness ==
    /\ call.op = "inverse_transform"
    /\ self.cls = "ModelSelector"
    /\ fit_state = "fitted"
    /\ call.outcome = "ValueError"
    /\ Len(self.selected_indices) > 0
    /\ NCols(call.X) = self.n_original_features

\* C7: when loading the pipeline raises ValidationError or ConnectionError
\* the view returns the exception's message as the response body and
\* renders no template; every other exception (name not found, fold_nr not
\* an integer, fold index past the end) leaves the view uncaught.
C7_ErrorsRendered ==
    view.state = "done" =>
        LET got == MDBHyperpipe_get(view.name, view.fault)
        IN  /\ view.fault \in {"ValidationError", "ConnectionError"}
                 => /\ view.response.kind = "body"
                    /\ view.response.body = got.raised.message
            /\ (view.fault = "none" /\ view.name \notin StoredPipes)
                 => view.response = Propagated("DoesNotExist")
            /\ (view.fault = "none" /\ view.name \in StoredPipes
                    /\ view.fold_nr = "x")
                 => view.response = Propagated("ValueError")
            /\ (view.fault = "none" /\ view.name \in StoredPipes
                    /\ view.fold_nr = str(MaxFolds + 1))
                 => view.response = Propagated("IndexError")
====
